---- MODULE Spec2Model ----
(***************************************************************************)
(* The technical-signal engine of advanced_trading_system.py:              *)
(* analyze_trend, calculate_support_resistance,                            *)
(* generate_entry_exit_levels and calculate_risk_management, applied to    *)
(* one price series.                                                       *)
(*                                                                         *)
(* Prices of the series are whole dollars.  Every derived float is an      *)
(* exact rational [k, n, d] (k = "num"), or NaN / Inf as numpy produces    *)
(* them (warnings are filtered, so 0/0 and x/0 do not raise).              *)
(***************************************************************************)
EXTENDS Integers, Sequences, FiniteSets, TLC

VARIABLES
    data,       \* the price series: bars [High, Low, Close, Volume], oldest first
    pc,         \* which call was made last: idle, trend, levels, risk, ...
    adx,        \* analyze_trend's local adx (talib's value or the default)
    trend,      \* analyze_trend's first result
    strength,   \* analyze_trend's second result
    trendArg,   \* the trend generate_entry_exit_levels was called with
    atr,        \* generate_entry_exit_levels' local atr
    pivots,     \* what calculate_support_resistance returned to it
    levels,     \* the dict generate_entry_exit_levels returned
    priceArg,   \* the price calculate_risk_management was called with
    risk,       \* the dict calculate_risk_management returned, or what it raised
    patterns,   \* the dict identify_candlestick_patterns returned: last signals
    plan,       \* the dict create_trading_plan returned, or what it raised
    rsi,        \* the series calculate_rsi returned
    signal,     \* what a signal generator returned
    signals_table,  \* the rows db.save_signal inserted
    cache,      \* enhanced_backend.cache
    cache_expiry,   \* enhanced_backend.cache_expiry: key -> minute of expiry
    now,        \* datetime.now(), in minutes
    set_log,    \* history: the latest set_cache call for each key
    got,        \* the latest sequential get_cached_data call and its result
    response,   \* what GET /api/signals/<symbol> answered, and the fetch outcome
    req,        \* the request threads: statement reached, locals, result
    clean,      \* the cleanup thread: statement reached and locals
    chat_history,   \* enhanced_chatbot: st.session_state.chat_history
    submitted,  \* history: the user messages submitted since the last clear
    last_event  \* history: the button whose handler ran last

vars == <<data, pc, adx, trend, strength, trendArg, atr, pivots, levels,
         priceArg, risk, patterns, plan, rsi, signal, signals_table,
         cache, cache_expiry, now, set_log, got, response, req, clean,
         chat_history, submitted, last_event>>

(* The state of the backend process, which the pages never touch. *)
backendVars == <<cache, cache_expiry, now, set_log, got, response, req, clean>>

(* The state of a page run, which the backend never touches. *)
chatVars == <<chat_history, submitted, last_event>>

pageVars == <<data, pc, adx, trend, strength, trendArg, atr, pivots, levels,
             priceArg, risk, patterns, plan, rsi, signal, chatVars>>

----------------------------------------------------------------------------
(* Bounds of the input family. *)
MaxSlope == 1
MaxWick == 1
MaxZig == 1
MaxLen == 61
BaseVolume == 1000
MaxHits == 3
MaxTime == 6
NumThreads == 2
MaxRows == 2
MaxPairs == 3

(* Program constants. *)
MinTrendBars == 50
FastPeriod == 20
SlowPeriod == 50
DefaultAdx == 25
AdxCap == 100
MinPivotBars == 20
PivotRadius == 2
MaxLevels == 5
AtrPeriod == 14
AtrFallbackPct == 2
StopMult == 2
Target1Mult == 2
Target2Mult == 4
AccountSize == 10000
RiskPerTradePct == 2
MinPatternBars == 10
VolumePeriod == 20
ShownPatterns == 2
RsiPeriod == 14
RsiOverbought == 70
RsiOversold == 30
BuyConfidence == 80
SellConfidence == 70
HoldConfidence == 50
MinSignalBars == 50
LambdaConfidence == 70
StockMinutes == 1
OverviewMinutes == 2
SignalsMinutes == 5
SleepMinutes == 5

----------------------------------------------------------------------------
(* Integer helpers. *)
Min2(a, b) == IF a <= b THEN a ELSE b

Max2(a, b) == IF a >= b THEN a ELSE b

Abs(a) == IF a < 0 THEN -a ELSE a

SetMax(S) == CHOOSE m \in S : \A x \in S : x <= m

SetMin(S) == CHOOSE m \in S : \A x \in S : m <= x

RECURSIVE GCD(_, _)
GCD(a, b) == IF b = 0 THEN a ELSE GCD(b, a % b)

----------------------------------------------------------------------------
(* numpy float64 values: exact rationals, NaN and Inf. *)
NaN == [k |-> "nan", n |-> 0, d |-> 1]

Inf == [k |-> "inf", n |-> 0, d |-> 1]

Frac(a, b) ==
    LET s == IF b < 0 THEN -1 ELSE 1
        g == GCD(Abs(a), Abs(b))
    IN  [k |-> "num", n |-> (s * a) \div g, d |-> (s * b) \div g]

Num(a) == [k |-> "num", n |-> a, d |-> 1]

IsNum(x) == x.k = "num"

FAdd(x, y) ==
    IF IsNum(x) /\ IsNum(y) THEN Frac(x.n * y.d + y.n * x.d, x.d * y.d)
    ELSE IF x.k = "nan" \/ y.k = "nan" THEN NaN ELSE Inf

FSub(x, y) ==
    IF IsNum(x) /\ IsNum(y) THEN Frac(x.n * y.d - y.n * x.d, x.d * y.d)
    ELSE IF x.k = "nan" \/ y.k = "nan" THEN NaN ELSE Inf

FMul(x, y) ==
    IF IsNum(x) /\ IsNum(y) THEN Frac(x.n * y.n, x.d * y.d)
    ELSE IF x.k = "nan" \/ y.k = "nan" THEN NaN ELSE Inf

(* numpy division of non-negative operands: 0/0 is nan, x/0 is inf. *)
FDiv(x, y) ==
    IF x.k = "nan" \/ y.k = "nan" THEN NaN
    ELSE IF IsNum(x) /\ IsNum(y)
         THEN IF y.n = 0 THEN (IF x.n = 0 THEN NaN ELSE Inf)
              ELSE Frac(x.n * y.d, x.d * y.n)
    ELSE IF x.k = "inf" /\ y.k = "inf" THEN NaN
    ELSE IF x.k = "inf" THEN Inf ELSE Num(0)

FAbs(x) == IF IsNum(x) THEN Frac(Abs(x.n), x.d) ELSE x

(* x < y; every comparison with NaN is False. *)
FLt(x, y) ==
    IF IsNum(x) /\ IsNum(y) THEN x.n * y.d < y.n * x.d
    ELSE IF x.k = "nan" \/ y.k = "nan" THEN FALSE
    ELSE IsNum(x) /\ y.k = "inf"

FLe(x, y) == FLt(x, y) \/ (IsNum(x) /\ x = y)

(* Python's min(a, b): b if b < a else a; max(a, b): b if b > a else a. *)
(* Mutant: min returns the larger argument. *)
PyMin_Larger(a, b) == IF FLt(b, a) THEN a ELSE b

PyMin(a, b) == IF FLt(b, a) THEN b ELSE a

PyMax(a, b) == IF FLt(a, b) THEN b ELSE a

----------------------------------------------------------------------------
(* The price series the engine is handed (the rows of the DataFrame that   *)
(* get_stock_data returns): two linear legs that meet k bars before the    *)
(* last bar, an optional oscillation, and symmetric wicks.        Every page  *)
(* calls the engine under `if not data.empty`, so a series has a bar.      *)
BasePrice == 100
NearPeak == 3

Lens == {1, MinPatternBars - 1, MinPatternBars, AtrPeriod - 1, AtrPeriod,
         AtrPeriod + 1, MinPivotBars - 1, MinPivotBars,
         MinTrendBars - 1, MinTrendBars, MinTrendBars + 1, MaxLen}

PeakOffsets == {NearPeak, FastPeriod, SlowPeriod - FastPeriod}

Slopes == (-MaxSlope)..MaxSlope

StartPrice(s1, s2) == BasePrice + MaxLen * (Max2(-s1, 0) + Max2(-s2, 0))

(* The oscillation added to the legs: a two-bar zigzag, or a six-bar wave  *)
(* whose peaks are local extrema of their five-bar window.                 *)
Shapes == {"zig", "wave"}

Wave == <<2, 4, 2, 0, -2, 0>>

Ripple(shape, z, i) ==
    IF shape = "zig" THEN (IF i % 2 = 0 THEN z ELSE 0)
    ELSE z * Wave[(i % Len(Wave)) + 1]

CloseAt(n, k, s1, s2, shape, z, i) ==
    LET b == Max2(n - 1 - k, 0)
    IN  StartPrice(s1, s2) + s1 * Min2(i - 1, b) + s2 * Max2(i - 1 - b, 0)
        + Ripple(shape, z, i)

(* Shares traded: busier on every third bar when the bars have a range. *)
VolumeAt(w, i) == BaseVolume * (1 + w * (i % 3))

MkSeries(n, k, s1, s2, shape, z, w) ==
    [i \in 1..n |->
        LET c == CloseAt(n, k, s1, s2, shape, z, i)
        IN  [High |-> c + w, Low |-> c - w, Close |-> c,
             Volume |-> VolumeAt(w, i)]]

SeriesSet ==
    {MkSeries(n, k, s1, s2, shape, z, w) :
        n \in Lens, k \in PeakOffsets, s1 \in Slopes, s2 \in Slopes,
        shape \in Shapes, z \in 0..MaxZig, w \in 0..MaxWick}

----------------------------------------------------------------------------
(* Mutant: the first bar's close (iloc[0]) taken for the current price. *)
CurrentPrice_First(d) == d[1].Close

(* data['Close'].iloc[-1] *)
CurrentPrice(d) == d[Len(d)].Close

RECURSIVE SumClose(_, _, _)
SumClose(d, lo, hi) ==
    IF lo > hi THEN 0 ELSE d[hi].Close + SumClose(d, lo, hi - 1)

(* data['Close'].rolling(p).mean().iloc[-1]: NaN with fewer than p bars. *)
RollingMeanLast(d, p) ==
    IF Len(d) < p THEN NaN
    ELSE Frac(SumClose(d, Len(d) - p + 1, Len(d)), p)

(* talib.ADX(...).iloc[-1] is an outside library's value in [0, 100]; the  *)
(* call may also raise, and the except clause then yields 25.              *)
AdxSamples == {0, 10, DefaultAdx, DefaultAdx + 1, 60, AdxCap}

TalibADX == {[raised |-> FALSE, v |-> a] : a \in AdxSamples}
            \cup {[raised |-> TRUE, v |-> 0]}

AdxUsed(adxOutcome) ==
    IF adxOutcome.raised THEN DefaultAdx ELSE adxOutcome.v

TrendStates == {"Uptrend", "Downtrend", "Sideways", "Insufficient Data"}

(* Mutant: the guard tests the fast period instead of 50 bars. *)
TooShortForTrend_Fast(d) == Len(d) < FastPeriod

(* len(data) < 50 *)
TooShortForTrend(d) == Len(d) < MinTrendBars

(* Mutant: the comparisons admit equality. *)
TrendOf_NonStrict(current_price, sma_20, sma_50) ==
    IF FLe(sma_20, current_price) /\ FLe(sma_50, sma_20) THEN "Uptrend"
    ELSE IF FLe(current_price, sma_20) /\ FLe(sma_20, sma_50) THEN "Downtrend"
    ELSE "Sideways"

(* Trend determination: current_price > sma_20 > sma_50, and its mirror. *)
TrendOf(current_price, sma_20, sma_50) ==
    IF FLt(sma_20, current_price) /\ FLt(sma_50, sma_20) THEN "Uptrend"
    ELSE IF FLt(current_price, sma_20) /\ FLt(sma_20, sma_50) THEN "Downtrend"
    ELSE "Sideways"

(* Mutant: a Sideways market's strength is the excess of adx over 25. *)
StrengthOf_Excess(t, a) ==
    IF t \in {"Uptrend", "Downtrend"} THEN Min2(a, AdxCap)
    ELSE IF a > DefaultAdx THEN a - DefaultAdx ELSE DefaultAdx

StrengthOf(t, a) ==
    IF t \in {"Uptrend", "Downtrend"} THEN Min2(a, AdxCap)
    ELSE IF a > DefaultAdx THEN Max2(DefaultAdx - a, 0) ELSE DefaultAdx

analyze_trend(d, a) ==
    IF TooShortForTrend(d) THEN <<"Insufficient Data", 0>>
    ELSE
        LET sma_20 == RollingMeanLast(d, FastPeriod)
            sma_50 == RollingMeanLast(d, SlowPeriod)
            current_price == Num(CurrentPrice(d))
            t == TrendOf(current_price, sma_20, sma_50)
        IN  <<t, StrengthOf(t, a)>>

----------------------------------------------------------------------------
(* calculate_support_resistance *)
(* Mutant: a 3-bar window. *)
WindowIdx_Narrow(i) == (i - 1)..(i + 1)

WindowIdx(i) == (i - PivotRadius)..(i + PivotRadius)

(* range(2, len(data)-2), as 1-based positions *)
PivotRange(d) == (PivotRadius + 1)..(Len(d) - PivotRadius)

ResistanceCandidates(d) ==
    {d[i].High : i \in {j \in PivotRange(d) :
                          d[j].High = SetMax({d[m].High : m \in WindowIdx(j)})}}

SupportCandidates(d) ==
    {d[i].Low : i \in {j \in PivotRange(d) :
                         d[j].Low = SetMin({d[m].Low : m \in WindowIdx(j)})}}

RECURSIVE SortedDesc(_)
SortedDesc(S) ==
    IF S = {} THEN <<>>
    ELSE LET m == SetMax(S) IN <<m>> \o SortedDesc(S \ {m})

RECURSIVE SortedAsc(_)
SortedAsc(S) ==
    IF S = {} THEN <<>>
    ELSE LET m == SetMin(S) IN <<m>> \o SortedAsc(S \ {m})

FirstN_OneMore(s, k) == SubSeq(s, 1, Min2(k + 1, Len(s)))

FirstN(s, k) == SubSeq(s, 1, Min2(k, Len(s)))

NoPivots == [support |-> <<>>, resistance |-> <<>>]

calculate_support_resistance(d) ==
    IF Len(d) < MinPivotBars
    THEN NoPivots
    ELSE [support |-> FirstN(SortedAsc(SupportCandidates(d)), MaxLevels),
          resistance |-> FirstN(SortedDesc(ResistanceCandidates(d)), MaxLevels)]

SeqRange(s) == {s[i] : i \in 1..Len(s)}

----------------------------------------------------------------------------
(* talib.ATR(..., timeperiod=14).iloc[-1]: an outside library's value.     *)
(* With at most 14 bars the library returns NaN.  Otherwise Wilder's       *)
(* average is a positively weighted mean of every true range of the        *)
(* series: it equals the true range when all are equal and lies strictly   *)
(* between the smallest and the largest otherwise.  The call may also      *)
(* raise, which the except clause turns into 2% of the current price.      *)
Max3(a, b, c) == Max2(a, Max2(b, c))

TrueRange(d, i) ==
    Max3(d[i].High - d[i].Low,
         Abs(d[i].High - d[i - 1].Close),
         Abs(d[i].Low - d[i - 1].Close))

AtrSamples(d) ==
    LET trs == {TrueRange(d, i) : i \in 2..Len(d)}
        lo == SetMin(trs)
        hi == SetMax(trs)
    IN  IF lo = hi THEN {Num(lo)}
        ELSE {Frac(3 * lo + 1, 3), Frac(3 * hi - 1, 3)}

AtrRaised == [k |-> "raise", n |-> 0, d |-> 1]

TalibATR(d) ==
    {AtrRaised} \cup (IF Len(d) <= AtrPeriod THEN {NaN} ELSE AtrSamples(d))

----------------------------------------------------------------------------
(* generate_entry_exit_levels *)
Raised(e) == [raised |-> e]

NoLevels == [direction |-> "none"]

(* Mutant: the Wait plan also carries an entry price. *)
WaitLevels_WithEntry ==
    [direction |-> "WAIT", message |-> "No clear trend - wait for breakout",
     entry |-> Num(0)]

WaitLevels ==
    [direction |-> "WAIT", message |-> "No clear trend - wait for breakout"]

(* Mutant: the farthest resistance above the price (max for min). *)
NearestResistance_Farthest(resistance, price, default) ==
    LET above == {r \in SeqRange(resistance) : r > price}
    IN  IF above = {} THEN default ELSE Num(SetMax(above))

(* Mutant: a resistance equal to the price counts (>= for >). *)
NearestResistance_NonStrict(resistance, price, default) ==
    LET above == {r \in SeqRange(resistance) : r >= price}
    IN  IF above = {} THEN default ELSE Num(SetMin(above))

(* min([r for r in resistance_levels if r > current_price], default=tp) *)
NearestResistance(resistance, price, default) ==
    LET above == {r \in SeqRange(resistance) : r > price}
    IN  IF above = {} THEN default ELSE Num(SetMin(above))

(* Mutant: the farthest support below the price (min for max). *)
NearestSupport_Farthest(support, price, default) ==
    LET below == {x \in SeqRange(support) : x < price}
    IN  IF below = {} THEN default ELSE Num(SetMin(below))

(* max([s for s in support_levels if s < current_price], default=tp) *)
NearestSupport(support, price, default) ==
    LET below == {x \in SeqRange(support) : x < price}
    IN  IF below = {} THEN default ELSE Num(SetMax(below))

LongLevels(d, a, resistance) ==
    LET current_price == Num(CurrentPrice(d))
        entry_price == current_price
        stop_loss == FSub(current_price, FMul(Num(StopMult), a))
        tp1 == FAdd(current_price, FMul(Num(Target1Mult), a))
        take_profit_2 == FAdd(current_price, FMul(Num(Target2Mult), a))
        take_profit_1 ==
            IF resistance # <<>>
            THEN PyMin(tp1, NearestResistance(resistance, CurrentPrice(d), tp1))
            ELSE tp1
    IN  [direction |-> "LONG",
         entry |-> entry_price,
         stop_loss |-> stop_loss,
         take_profit_1 |-> take_profit_1,
         take_profit_2 |-> take_profit_2,
         risk_reward |-> FDiv(FSub(take_profit_1, entry_price),
                              FSub(entry_price, stop_loss))]

ShortLevels(d, a, support) ==
    LET current_price == Num(CurrentPrice(d))
        entry_price == current_price
        stop_loss == FAdd(current_price, FMul(Num(StopMult), a))
        tp1 == FSub(current_price, FMul(Num(Target1Mult), a))
        take_profit_2 == FSub(current_price, FMul(Num(Target2Mult), a))
        take_profit_1 ==
            IF support # <<>>
            THEN PyMax(tp1, NearestSupport(support, CurrentPrice(d), tp1))
            ELSE tp1
    IN  [direction |-> "SHORT",
         entry |-> entry_price,
         stop_loss |-> stop_loss,
         take_profit_1 |-> take_profit_1,
         take_profit_2 |-> take_profit_2,
         risk_reward |-> FDiv(FSub(entry_price, take_profit_1),
                              FSub(stop_loss, entry_price))]

(* The ATR the generator works with: talib's value, or the fallback. *)
AtrUsed(d, atrOutcome) ==
    IF atrOutcome.k = "raise"
    THEN FMul(Num(CurrentPrice(d)), Frac(AtrFallbackPct, 100))
    ELSE atrOutcome

generate_entry_exit_levels(d, t, a) ==
    LET sr == calculate_support_resistance(d)
    IN  IF t = "Uptrend" THEN LongLevels(d, a, sr.resistance)
        ELSE IF t = "Downtrend" THEN ShortLevels(d, a, sr.support)
        ELSE WaitLevels

----------------------------------------------------------------------------
(* calculate_risk_management *)
NoRisk == [none |-> TRUE]

(* f"${x:.2f}" of a non-negative number: the cents the string shows. *)
Fmt2(x) ==
    LET q == (100 * x.n) \div x.d
        r == (100 * x.n) % x.d
    IN  IF 2 * r < x.d THEN q
        ELSE IF 2 * r > x.d THEN q + 1
        ELSE IF q % 2 = 0 THEN q ELSE q + 1

(* Mutant: the position size is rounded up. *)
PyInt_Ceil(x) ==
    IF x.k = "nan" THEN Raised("ValueError")
    ELSE IF x.k = "inf" THEN Raised("OverflowError")
    ELSE [value |-> (x.n + x.d - 1) \div x.d]

(* Mutant: round(position_size) for int(position_size). *)
PyInt_Round(x) ==
    IF x.k = "nan" THEN Raised("ValueError")
    ELSE IF x.k = "inf" THEN Raised("OverflowError")
    ELSE [value |-> (2 * x.n + x.d) \div (2 * x.d)]

(* int(position_size): nan and inf raise, a number is truncated. *)
PyInt(x) ==
    IF x.k = "nan" THEN Raised("ValueError")
    ELSE IF x.k = "inf" THEN Raised("OverflowError")
    ELSE [value |-> x.n \div x.d]

(* Mutant: the direction is compared with another spelling. *)
IsWait_Lower(lv) == lv.direction = "wait"

(* levels.get('direction') == 'WAIT' *)
IsWait(lv) == lv.direction = "WAIT"

calculate_risk_management(current_price, lv) ==
    IF IsWait(lv) THEN [message |-> "No position recommended"]
    ELSE IF "stop_loss" \in DOMAIN lv
    THEN
        LET risk_per_share == FAbs(FSub(current_price, lv.stop_loss))
            position_size ==
                FDiv(Num((AccountSize * RiskPerTradePct) \div 100), risk_per_share)
            max_shares == PyInt(position_size)
        IN  IF "raised" \in DOMAIN max_shares THEN max_shares
            ELSE [account_size |-> AccountSize,
                  risk_per_trade |-> "2.0%",
                  risk_per_share |-> Fmt2(risk_per_share),
                  max_position_size |-> max_shares.value,
                  total_risk |->
                      Fmt2(FMul(Num(max_shares.value), risk_per_share))]
    ELSE [message |-> "Risk calculation unavailable"]

----------------------------------------------------------------------------
(* identify_candlestick_patterns.  The eleven talib.CDL* functions are an   *)
(* outside library: each returns a series of 100, -100 and 0, of which the *)
(* engine reads the last value.  The sampled outcomes fire a run of        *)
(* neighbouring patterns on the last bar; the try block may also raise     *)
(* part-way, leaving the mapping with the patterns computed before.        *)
PatternOrder ==
    <<"Doji", "Hammer", "Hanging Man", "Shooting Star", "Marubozu",
      "Engulfing", "Harami", "Morning Star", "Evening Star",
      "Three White Soldiers", "Three Black Crows">>

BullishOnly == {"Doji", "Hammer", "Morning Star", "Three White Soldiers"}

BearishOnly == {"Hanging Man", "Shooting Star", "Evening Star",
                "Three Black Crows"}

SignOf(p, s) ==
    IF p \in BullishOnly THEN 100 ELSE IF p \in BearishOnly THEN -100 ELSE s

PatternStarts == {1, 5, 9}

SignalVector(f, h, s) ==
    [i \in 1..Len(PatternOrder) |->
        IF i \in f..(f + h - 1) THEN SignOf(PatternOrder[i], s) ELSE 0]

RaisePoints == {0, 4}

TalibCDL ==
    {[vec |-> SignalVector(f, h, s), done |-> Len(PatternOrder)] :
        f \in PatternStarts, h \in 0..MaxHits, s \in {100, -100}}
    \cup {[vec |-> SignalVector(1, h, 100), done |-> r] :
            h \in 0..MaxHits, r \in RaisePoints}

PatternIndex(p) == CHOOSE i \in 1..Len(PatternOrder) : PatternOrder[i] = p

EmptyPatterns == [p \in {} |-> 0]

NoPatterns == [none |-> TRUE]

(* Mutant: one bar fewer is enough for the pattern functions. *)
TooShortForPatterns_OneLess(d) == Len(d) < MinPatternBars - 1

TooShortForPatterns(d) == Len(d) < MinPatternBars

identify_candlestick_patterns(d, o) ==
    IF TooShortForPatterns(d) THEN EmptyPatterns
    ELSE [p \in {PatternOrder[i] : i \in 1..o.done} |-> o.vec[PatternIndex(p)]]

----------------------------------------------------------------------------
(* analyze_market_context.  The annualised volatility is a standard        *)
(* deviation times sqrt(252): only whether it is a number is kept (the     *)
(* sample deviation of fewer than two returns is NaN).                     *)
RECURSIVE SumVolume(_, _, _)
SumVolume(d, lo, hi) ==
    IF lo > hi THEN 0 ELSE d[hi].Volume + SumVolume(d, lo, hi - 1)

(* f"{x:.1f}": the tenths the string shows, or the text of nan and inf. *)
Fmt1(x) ==
    IF ~IsNum(x) THEN [text |-> x.k]
    ELSE LET q == (10 * x.n) \div x.d
             r == (10 * x.n) % x.d
         IN  [tenths |-> IF 2 * r < x.d THEN q
                         ELSE IF 2 * r > x.d THEN q + 1
                         ELSE IF q % 2 = 0 THEN q ELSE q + 1]

analyze_market_context(d) ==
    LET avg_volume ==
            IF Len(d) < VolumePeriod THEN NaN
            ELSE Frac(SumVolume(d, Len(d) - VolumePeriod + 1, Len(d)),
                      VolumePeriod)
        volume_ratio == FDiv(Num(d[Len(d)].Volume), avg_volume)
    IN  [volatility |-> IF Len(d) < 3 THEN "nan%" ELSE "number%",
         volume_status |->
            IF FLt(Frac(3, 2), volume_ratio) THEN "High"
            ELSE IF FLt(Frac(1, 2), volume_ratio) THEN "Normal" ELSE "Low",
         volume_ratio |-> Fmt1(volume_ratio)]

----------------------------------------------------------------------------
(* generate_action_plan: the action lines, in order.  A price line is kept *)
(* as its label and the cents shown, the pattern line as the entries that  *)
(* ', '.join puts into it.                                                 *)
generate_action_plan(t, recent, lv) ==
    (IF t = "Uptrend"
     THEN <<[label |-> "Look for long opportunities on pullbacks"],
            [label |-> "Monitor for continuation patterns"]>>
     ELSE IF t = "Downtrend"
     THEN <<[label |-> "Consider short positions on rallies"],
            [label |-> "Watch for reversal signals"]>>
     ELSE <<[label |-> "Wait for clear directional breakout"],
            [label |-> "Monitor key support/resistance levels"]>>)
    \o (IF recent # <<>>
        THEN <<[label |-> "Recent patterns",
                shown |-> FirstN(recent, ShownPatterns)]>>
        ELSE <<>>)
    \o (IF ~IsWait(lv)
        THEN <<[label |-> "Entry", cents |-> Fmt2(lv.entry)],
               [label |-> "Stop", cents |-> Fmt2(lv.stop_loss)],
               [label |-> "Target", cents |-> Fmt2(lv.take_profit_1)]>>
        ELSE <<>>)

----------------------------------------------------------------------------
(* create_trading_plan (the symbol and today's date are passed through and *)
(* not kept).  The dict is built field by field, so an exception of        *)
(* calculate_risk_management leaves the call without a result.             *)
(* Mutant: every pattern of the mapping is listed, fired or not. *)
RECURSIVE RecentPatterns_All(_, _)
RecentPatterns_All(pats, i) ==
    IF i > Len(PatternOrder) THEN <<>>
    ELSE LET p == PatternOrder[i]
         IN  (IF p \in DOMAIN pats
              THEN <<[name |-> p,
                      signal_type |-> IF pats[p] > 0 THEN "Bullish"
                                      ELSE "Bearish"]>>
              ELSE <<>>)
             \o RecentPatterns_All(pats, i + 1)

RECURSIVE RecentPatterns(_, _)
RecentPatterns(pats, i) ==
    IF i > Len(PatternOrder) THEN <<>>
    ELSE LET p == PatternOrder[i]
         IN  (IF p \in DOMAIN pats /\ pats[p] # 0
              THEN <<[name |-> p,
                      signal_type |-> IF pats[p] > 0 THEN "Bullish"
                                      ELSE "Bearish"]>>
              ELSE <<>>)
             \o RecentPatterns(pats, i + 1)

NoPlan == [none |-> TRUE]

create_trading_plan(d, pats, t, lv) ==
    LET current_price == Num(CurrentPrice(d))
        recent_patterns == RecentPatterns(pats, 1)
        risk_management == calculate_risk_management(current_price, lv)
    IN  IF "raised" \in DOMAIN risk_management THEN risk_management
        ELSE [current_price |-> current_price,
              volume |-> d[Len(d)].Volume,
              trend |-> t,
              patterns |-> recent_patterns,
              levels |-> lv,
              market_context |-> analyze_market_context(d),
              risk_management |-> risk_management,
              action_plan |-> generate_action_plan(t, recent_patterns, lv)]

----------------------------------------------------------------------------
(* calculate_rsi (enhanced_backend.py, quick_start.py and                  *)
(* complete_trading_app.py hold the same function).  prices.diff() is NaN  *)
(* on the first bar, and where() turns it into a change of 0; the rolling  *)
(* means are NaN until the window of RsiPeriod bars is full.               *)
Delta(d, i) == d[i].Close - d[i - 1].Close

GainAt(d, i) == IF i > 1 /\ Delta(d, i) > 0 THEN Delta(d, i) ELSE 0

LossAt(d, i) == IF i > 1 /\ Delta(d, i) < 0 THEN -Delta(d, i) ELSE 0

RECURSIVE SumGain(_, _, _)
SumGain(d, lo, hi) ==
    IF lo > hi THEN 0 ELSE GainAt(d, hi) + SumGain(d, lo, hi - 1)

RECURSIVE SumLoss(_, _, _)
SumLoss(d, lo, hi) ==
    IF lo > hi THEN 0 ELSE LossAt(d, hi) + SumLoss(d, lo, hi - 1)

AvgGain(d, i) ==
    IF i < RsiPeriod THEN NaN
    ELSE Frac(SumGain(d, i - RsiPeriod + 1, i), RsiPeriod)

AvgLoss(d, i) ==
    IF i < RsiPeriod THEN NaN
    ELSE Frac(SumLoss(d, i - RsiPeriod + 1, i), RsiPeriod)

(* Mutant: 100 / (1 + rs), without the subtraction from 100. *)
RsiOf_Complement(gain, loss) ==
    FDiv(Num(100), FAdd(Num(1), FDiv(gain, loss)))

(* rs = gain / loss; 100 - (100 / (1 + rs)) *)
RsiOf(gain, loss) ==
    FSub(Num(100), FDiv(Num(100), FAdd(Num(1), FDiv(gain, loss))))

calculate_rsi(d) == [i \in 1..Len(d) |-> RsiOf(AvgGain(d, i), AvgLoss(d, i))]

NoRsi == <<>>

----------------------------------------------------------------------------
(* The signal generators.  Every comparison with a NaN average or a NaN    *)
(* RSI is False.                                                           *)
NoSignal == [none |-> TRUE]

SignalOf(current_price, sma_20, sma_50, r) ==
    IF /\ FLt(sma_20, current_price)
       /\ FLt(sma_50, sma_20)
       /\ FLt(r, Num(RsiOverbought))
    THEN [signal |-> "BUY", confidence |-> BuyConfidence]
    ELSE IF /\ FLt(current_price, sma_20)
            /\ FLt(sma_20, sma_50)
            /\ FLt(Num(RsiOversold), r)
    THEN [signal |-> "SELL", confidence |-> SellConfidence]
    ELSE [signal |-> "HOLD", confidence |-> HoldConfidence]

(* enhanced_backend.generate_trading_signal, for a non-empty history. *)
generate_trading_signal(d) ==
    LET current_price == Num(CurrentPrice(d))
        sma_20 == RollingMeanLast(d, FastPeriod)
        sma_50 == RollingMeanLast(d, SlowPeriod)
        r == calculate_rsi(d)[Len(d)]
        s == SignalOf(current_price, sma_20, sma_50, r)
    IN  [signal |-> s.signal, confidence |-> s.confidence,
         price |-> current_price,
         indicators |-> [sma_20 |-> sma_20, sma_50 |-> sma_50, rsi |-> r]]

(* quick_start.generate_signal on the frame get_historical_data built. *)
generate_signal(d) ==
    IF Len(d) < MinSignalBars
    THEN [signal |-> "HOLD", confidence |-> HoldConfidence,
          indicators |-> EmptyPatterns]
    ELSE LET current_price == Num(CurrentPrice(d))
             sma_20 == RollingMeanLast(d, FastPeriod)
             sma_50 == RollingMeanLast(d, SlowPeriod)
             r == calculate_rsi(d)[Len(d)]
             s == SignalOf(current_price, sma_20, sma_50, r)
         IN  [signal |-> s.signal, confidence |-> s.confidence,
              indicators |-> [price |-> current_price, sma_20 |-> sma_20,
                              sma_50 |-> sma_50, rsi |-> r]]

(* gateway_lambda.handle_signals, for a non-empty history. *)
handle_signals(d) ==
    LET current_price == Num(CurrentPrice(d))
        sma_20 == RollingMeanLast(d, FastPeriod)
    IN  [statusCode |-> 200,
         signal |-> IF FLt(sma_20, current_price) THEN "BUY" ELSE "SELL",
         confidence |-> LambdaConfidence,
         price |-> current_price]

----------------------------------------------------------------------------
(* enhanced_backend.py: the in-memory cache.  cache and cache_expiry are   *)
(* dicts (functions on the keys they hold); the clock counts minutes.      *)
PyNone == [none |-> TRUE]

EmptyDict == [k \in {} |-> PyNone]

DictSet(dct, key, v) ==
    [k \in DOMAIN dct \cup {key} |-> IF k = key THEN v ELSE dct[k]]

(* dct.pop(key, None) *)
DictPop(dct, key) == [k \in DOMAIN dct \ {key} |-> dct[k]]

StockKey == "stock_AAPL"

OverviewKey == "market_overview"

SignalsKey == "signals_AAPL"

Keys == {StockKey, OverviewKey, SignalsKey}

(* The keys whose payload the model does not look into. *)
PlainKeys == {StockKey, OverviewKey}

Payloads == {[payload |-> "first"], [payload |-> "second"]}

ExpiryMinutes == {StockMinutes, OverviewMinutes, SignalsMinutes}

(* Mutant: an entry is still served at the minute it expires. *)
IsFresh_Inclusive(expiry, key, t) == t <= expiry[key]

(* datetime.now() < cache_expiry[key] *)
IsFresh(expiry, key, t) == t < expiry[key]

get_cached_data(c, expiry, key, t) ==
    IF key \in DOMAIN c /\ key \in DOMAIN expiry
    THEN IF IsFresh(expiry, key, t) THEN c[key] ELSE PyNone
    ELSE PyNone

(* [key for key, expiry in cache_expiry.items() if current_time > expiry] *)
ExpiredKeys(expiry, t) == {k \in DOMAIN expiry : t > expiry[k]}

(* bool(x) of what the routes test: None is false, a non-empty dict true. *)
Truthy(x) == x # PyNone

----------------------------------------------------------------------------
(* GET /api/signals/<symbol>.  yfinance is an outside service: the fetch   *)
(* gives a history, an empty frame, or raises, and generate_trading_signal *)
(* turns the exception into a dict with an 'error' key.                    *)
FetchedSeries ==
    {MkSeries(n, NearPeak, s, s, "zig", 0, 0) :
        n \in {MinSignalBars - 1, MaxLen}, s \in {-MaxSlope, MaxSlope}}

FetchOutcomes ==
    {[kind |-> "history", hist |-> d] : d \in FetchedSeries}
    \cup {[kind |-> "empty", hist |-> <<>>], [kind |-> "raise", hist |-> <<>>]}

SignalData(o) ==
    IF o.kind = "raise" THEN [error |-> "exception text"]
    ELSE IF o.kind = "empty" THEN PyNone
    ELSE generate_trading_signal(o.hist)

NoResponse == [status |-> 0, body |-> PyNone, fetch |-> "none", stored |-> FALSE]

(* return jsonify(cached) / jsonify(signal_data) / the 500 answer *)
SignalsResponse(cached, o) ==
    IF Truthy(cached)
    THEN [status |-> 200, body |-> cached, fetch |-> "none", stored |-> FALSE]
    ELSE IF Truthy(SignalData(o))
    THEN [status |-> 200, body |-> SignalData(o), fetch |-> o.kind,
          stored |-> TRUE]
    ELSE [status |-> 500, body |-> [error |-> "Unable to generate signals"],
          fetch |-> o.kind, stored |-> FALSE]

NoCall == [key |-> "none", value |-> PyNone, at |-> 0]

----------------------------------------------------------------------------
(* The request threads (Flask runs threaded=True) and the cleanup thread,  *)
(* statement by statement.                                                 *)
Threads == 1..NumThreads

IdleRequest == [pc |-> "idle", key |-> "none", data |-> PyNone, result |-> PyNone]

SleepingCleanup ==
    [pc |-> "sleep", wake |-> SleepMinutes, current_time |-> 0,
     size |-> 0, todo |-> {}, expired |-> {}, key |-> "none"]

----------------------------------------------------------------------------
(* enhanced_chatbot.py: the chat history of one session.  A message is its *)
(* type and content; the timestamp field is left out.                      *)
Welcome == [type |-> "bot", content |-> "Hello! I'm your AI Trading Assistant."]

UserMessage(text) == [type |-> "user", content |-> text]

BotMessage(text) == [type |-> "bot", content |-> text]

popular_stocks == <<"AAPL", "TSLA", "NVDA", "MSFT", "GOOGL", "AMZN">>

quick_topics ==
    <<"market sentiment", "portfolio management", "risk management",
      "trading strategies", "technical analysis", "options trading">>

(* What the visitor may have typed when Send is pressed. *)
TypedInputs == {"", "Should I buy TSLA?", "risking"}

AnalyzeQueries == {"analyze " \o popular_stocks[i] : i \in DOMAIN popular_stocks}

(* extract_stock_symbols finds a word of one to five letters that is not a *)
(* common word: the ticker of an analyze query, RISK, and I or TSLA.       *)
HasSymbol(query) ==
    query \in AnalyzeQueries \cup {"risk management", "Should I buy TSLA?"}

(* enhanced_ai_response: the branch taken for each query; found says       *)
(* whether get_stock_data returned data for the symbol.  A query with      *)
(* 'risk' but neither 'management' nor 'tolerance' falls off the end of    *)
(* the function, which returns None.                                       *)
enhanced_ai_response(query, found) ==
    IF HasSymbol(query)
    THEN IF ~found THEN "Sorry, I couldn't find data"
         ELSE IF query \in AnalyzeQueries THEN "Analysis"
         ELSE IF query = "Should I buy TSLA?" THEN "Buy Analysis"
         ELSE "Overview"
    ELSE CASE query = "market sentiment" -> "Market Sentiment"
           [] query = "portfolio management" -> "Portfolio Management"
           [] query = "trading strategies" -> "Trading Strategies Overview"
           [] query = "technical analysis" -> "Technical Analysis Basics"
           [] query = "options trading" -> "Options Trading Basics"
           [] query = "risking" -> "None"
           [] OTHER -> "I'd love to help!"

(* Two appends: the user message, then the reply. *)
Exchange(history, content, query, found) ==
    Append(Append(history, UserMessage(content)),
           BotMessage(enhanced_ai_response(query, found)))

(* Mutant: Clear Chat empties the list. *)
Cleared_All(history) == <<>>

(* [st.session_state.chat_history[0]] *)
Cleared(history) == <<history[1]>>

----------------------------------------------------------------------------
(* The state machine: one series is loaded, then the engine's functions    *)
(* are applied to it as the pages do (analyze_trend, then                  *)
(* generate_entry_exit_levels with that trend, then                        *)
(* calculate_risk_management), or directly with a caller-chosen trend and  *)
(* price.                                                                  *)
Fresh ==
    /\ pc = "idle"
    /\ adx = 0
    /\ trend = "none"
    /\ strength = 0
    /\ trendArg = "none"
    /\ atr = NaN
    /\ pivots = NoPivots
    /\ levels = NoLevels
    /\ priceArg = NaN
    /\ risk = NoRisk
    /\ patterns = NoPatterns
    /\ plan = NoPlan
    /\ rsi = NoRsi
    /\ signal = NoSignal
    /\ signals_table = <<>>
    /\ cache = EmptyDict
    /\ cache_expiry = EmptyDict
    /\ now = 0
    /\ set_log = EmptyDict
    /\ got = NoCall
    /\ response = NoResponse
    /\ req = [t \in Threads |-> IdleRequest]
    /\ clean = SleepingCleanup
    /\ chat_history = <<Welcome>>
    /\ submitted = <<>>
    /\ last_event = "none"

Init ==
    /\ data \in SeriesSet
    /\ Fresh

AnalyzeTrend ==
    /\ pc \in {"idle", "patterns"}
    /\ \E o \in TalibADX :
         LET a == IF TooShortForTrend(data) THEN 0 ELSE AdxUsed(o)
             res == analyze_trend(data, a)
         IN  /\ adx' = a
             /\ trend' = res[1]
             /\ strength' = res[2]
    /\ pc' = "trend"
    /\ UNCHANGED <<data, trendArg, atr, pivots, levels, priceArg, risk,
                   patterns, plan, rsi, signal, signals_table>>
    /\ UNCHANGED <<backendVars, chatVars>>

(* trend, _ = analyze_trend(data); levels = generate_entry_exit_levels(data, trend) *)
(* on the pages (the strength is dropped), or a direct call with any       *)
(* trend state.                                                            *)
GenerateLevels ==
    /\ pc \in {"idle", "patterns", "trend"}
    /\ \E t \in (IF pc = "trend" THEN {trend} ELSE TrendStates) :
       \E o \in TalibATR(data) :
         /\ trendArg' = t
         /\ atr' = AtrUsed(data, o)
         /\ pivots' = calculate_support_resistance(data)
         /\ levels' = generate_entry_exit_levels(data, t, AtrUsed(data, o))
    /\ adx' = 0
    /\ strength' = 0
    /\ pc' = "levels"
    /\ UNCHANGED <<data, trend, priceArg, risk, patterns, plan, rsi, signal,
                   signals_table>>
    /\ UNCHANGED <<backendVars, chatVars>>

(* The prices calculate_risk_management is called with: the current close  *)
(* (create_trading_plan), or the plan's own stop or near target.           *)
PriceArgs ==
    {Num(CurrentPrice(data))}
    \cup (IF "stop_loss" \in DOMAIN levels
          THEN {levels.stop_loss, levels.take_profit_1} ELSE {})

RiskManagement ==
    /\ pc = "levels"
    /\ \E p \in PriceArgs :
         /\ priceArg' = p
         /\ risk' = calculate_risk_management(p, levels)
    /\ pc' = "risk"
    /\ UNCHANGED <<data, adx, trend, strength, trendArg, atr, pivots, levels,
                   patterns, plan, rsi, signal, signals_table>>
    /\ UNCHANGED <<backendVars, chatVars>>

Next == AnalyzeTrend \/ GenerateLevels \/ RiskManagement

Spec == Init /\ [][Next]_vars

----------------------------------------------------------------------------
(* The Daily Trading Plan page: identify_candlestick_patterns,             *)
(* analyze_trend, generate_entry_exit_levels, create_trading_plan; or      *)
(* create_trading_plan called with the levels of any trend state.  The     *)
(* series are the straight lines of the family.                            *)
PlanSeriesSet ==
    {MkSeries(n, NearPeak, s, s, "zig", 0, w) :
        n \in Lens, s \in Slopes, w \in 0..MaxWick}

PlanInit ==
    /\ data \in PlanSeriesSet
    /\ Fresh

IdentifyPatterns ==
    /\ pc = "idle"
    /\ \E o \in TalibCDL : patterns' = identify_candlestick_patterns(data, o)
    /\ pc' = "patterns"
    /\ UNCHANGED <<data, adx, trend, strength, trendArg, atr, pivots, levels,
                   priceArg, risk, plan, rsi, signal, signals_table>>
    /\ UNCHANGED <<backendVars, chatVars>>

CreateTradingPlan ==
    /\ pc = "levels"
    /\ patterns # NoPatterns
    /\ priceArg' = Num(CurrentPrice(data))
    /\ plan' = create_trading_plan(data, patterns, trendArg, levels)
    /\ pc' = "plan"
    /\ UNCHANGED <<data, adx, trend, strength, trendArg, atr, pivots, levels,
                   risk, patterns, rsi, signal, signals_table>>
    /\ UNCHANGED <<backendVars, chatVars>>

PlanNext ==
    IdentifyPatterns \/ AnalyzeTrend \/ GenerateLevels \/ CreateTradingPlan

PlanSpec == PlanInit /\ [][PlanNext]_vars

----------------------------------------------------------------------------
(* The indicator and signal functions of the backend, the Streamlit app    *)
(* and the Lambda gateway, each applied to a fetched, non-empty history.   *)
CalculateRsi ==
    /\ pc = "idle"
    /\ rsi' = calculate_rsi(data)
    /\ pc' = "rsi"
    /\ UNCHANGED <<data, adx, trend, strength, trendArg, atr, pivots, levels,
                   priceArg, risk, patterns, plan, signal, signals_table>>
    /\ UNCHANGED <<backendVars, chatVars>>

(* db.save_signal(symbol, signal, confidence, float(current_price)) *)
GenerateTradingSignal ==
    /\ pc = "idle"
    /\ signal' = generate_trading_signal(data)
    /\ signals_table' =
          Append(signals_table,
                 [signal |-> signal'.signal, confidence |-> signal'.confidence,
                  price |-> signal'.price])
    /\ pc' = "backend_signal"
    /\ UNCHANGED <<data, adx, trend, strength, trendArg, atr, pivots, levels,
                   priceArg, risk, patterns, plan, rsi>>
    /\ UNCHANGED <<backendVars, chatVars>>

GenerateSignal ==
    /\ pc = "idle"
    /\ signal' = generate_signal(data)
    /\ pc' = "app_signal"
    /\ UNCHANGED <<data, adx, trend, strength, trendArg, atr, pivots, levels,
                   priceArg, risk, patterns, plan, rsi, signals_table>>
    /\ UNCHANGED <<backendVars, chatVars>>

HandleSignals ==
    /\ pc = "idle"
    /\ signal' = handle_signals(data)
    /\ pc' = "lambda_signal"
    /\ UNCHANGED <<data, adx, trend, strength, trendArg, atr, pivots, levels,
                   priceArg, risk, patterns, plan, rsi, signals_table>>
    /\ UNCHANGED <<backendVars, chatVars>>

SignalNext ==
    CalculateRsi \/ GenerateTradingSignal \/ GenerateSignal \/ HandleSignals

SignalSpec == Init /\ [][SignalNext]_vars

----------------------------------------------------------------------------
(* The cache used by one thread at a time: whole calls of set_cache and    *)
(* get_cached_data, whole passes of cleanup_cache, and the clock.          *)
Tick ==
    /\ now < MaxTime
    /\ now' = now + 1
    /\ UNCHANGED <<pageVars, signals_table, cache, cache_expiry, set_log,
                   got, response, req, clean>>

Logged(key, v, m) == DictSet(set_log, key, [value |-> v, at |-> now, minutes |-> m])

SetCache ==
    \E key \in PlainKeys, v \in Payloads, m \in ExpiryMinutes :
        /\ cache' = DictSet(cache, key, v)
        /\ cache_expiry' = DictSet(cache_expiry, key, now + m)
        /\ set_log' = Logged(key, v, m)
        /\ UNCHANGED <<pageVars, signals_table, now, got, response, req, clean>>

GetCachedData ==
    \E key \in Keys :
        /\ got' = [key |-> key,
                   value |-> get_cached_data(cache, cache_expiry, key, now),
                   at |-> now]
        /\ UNCHANGED <<pageVars, signals_table, cache, cache_expiry, now,
                       set_log, response, req, clean>>

(* One pass of the loop body of cleanup_cache, after its sleep. *)
CleanupCache ==
    /\ now >= clean.wake
    /\ LET expired_keys == ExpiredKeys(cache_expiry, now)
       IN  /\ cache' = [k \in DOMAIN cache \ expired_keys |-> cache[k]]
           /\ cache_expiry' =
                 [k \in DOMAIN cache_expiry \ expired_keys |-> cache_expiry[k]]
           /\ clean' = [clean EXCEPT !.wake = now + SleepMinutes]
    /\ UNCHANGED <<pageVars, signals_table, now, set_log, got, response, req>>

GetSignals ==
    \E o \in FetchOutcomes :
        LET cached == get_cached_data(cache, cache_expiry, SignalsKey, now)
            signal_data == SignalData(o)
            generated == ~Truthy(cached) /\ o.kind = "history"
        IN  /\ generated => Len(signals_table) < MaxRows
            /\ response' = SignalsResponse(cached, o)
            /\ signals_table' =
                  IF generated
                  THEN Append(signals_table,
                              [signal |-> signal_data.signal,
                               confidence |-> signal_data.confidence,
                               price |-> signal_data.price])
                  ELSE signals_table
            /\ IF response'.stored
               THEN /\ cache' = DictSet(cache, SignalsKey, signal_data)
                    /\ cache_expiry' =
                          DictSet(cache_expiry, SignalsKey, now + SignalsMinutes)
                    /\ set_log' = Logged(SignalsKey, signal_data, SignalsMinutes)
               ELSE UNCHANGED <<cache, cache_expiry, set_log>>
            /\ UNCHANGED <<pageVars, now, got, req, clean>>

CacheNext == Tick \/ SetCache \/ GetCachedData \/ CleanupCache

(* The backend process starts with both dicts empty (lines 21-22). *)
BackendInit ==
    /\ data = <<>>
    /\ Fresh

CacheSpec == BackendInit /\ [][CacheNext]_vars

(* The signals route served by one thread at a time. *)
RouteNext == Tick \/ CleanupCache \/ GetSignals

RouteSpec == BackendInit /\ [][RouteNext]_vars

----------------------------------------------------------------------------
(* The cache shared by the request threads and the cleanup thread.  The    *)
(* interpreter may switch threads between any two dict operations, so each *)
(* action is one dict operation of one thread.  One key is contended.      *)
RaceKeys == {StockKey}

KeyError == [raised |-> "KeyError"]

Returned(t, x) == [req EXCEPT ![t] = [IdleRequest EXCEPT !.result = x]]

(* set_cache, line 80: cache[key] = data *)
SetValue(t) ==
    \E key \in RaceKeys, v \in Payloads :
        /\ req[t].pc = "idle"
        /\ cache' = DictSet(cache, key, v)
        /\ req' = [req EXCEPT ![t] = [pc |-> "set_expiry", key |-> key,
                                      data |-> v, result |-> PyNone]]
        /\ UNCHANGED <<pageVars, signals_table, cache_expiry, now, set_log,
                       got, response, clean>>

(* set_cache, line 81: cache_expiry[key] = datetime.now() + timedelta(...) *)
SetExpiry(t) ==
    \E m \in ExpiryMinutes :
        /\ req[t].pc = "set_expiry"
        /\ cache_expiry' = DictSet(cache_expiry, req[t].key, now + m)
        /\ req' = Returned(t, PyNone)
        /\ UNCHANGED <<pageVars, signals_table, cache, now, set_log, got,
                       response, clean>>

(* get_cached_data, line 74: key in cache and key in cache_expiry *)
GetMembership(t) ==
    \E key \in RaceKeys :
        /\ req[t].pc = "idle"
        /\ req' = IF key \in DOMAIN cache /\ key \in DOMAIN cache_expiry
                  THEN [req EXCEPT ![t] = [pc |-> "get_compare", key |-> key,
                                           data |-> PyNone, result |-> PyNone]]
                  ELSE Returned(t, PyNone)
        /\ UNCHANGED <<pageVars, signals_table, cache, cache_expiry, now,
                       set_log, got, response, clean>>

(* get_cached_data, line 75: datetime.now() < cache_expiry[key] *)
GetCompare(t) ==
    /\ req[t].pc = "get_compare"
    /\ req' = IF req[t].key \notin DOMAIN cache_expiry
              THEN Returned(t, KeyError)
              ELSE IF IsFresh(cache_expiry, req[t].key, now)
              THEN [req EXCEPT ![t].pc = "get_read"]
              ELSE Returned(t, PyNone)
    /\ UNCHANGED <<pageVars, signals_table, cache, cache_expiry, now, set_log,
                   got, response, clean>>

(* get_cached_data, line 76: return cache[key] *)
GetRead(t) ==
    /\ req[t].pc = "get_read"
    /\ req' = IF req[t].key \notin DOMAIN cache
              THEN Returned(t, KeyError)
              ELSE Returned(t, cache[req[t].key])
    /\ UNCHANGED <<pageVars, signals_table, cache, cache_expiry, now, set_log,
                   got, response, clean>>

(* cleanup_cache, lines 342-344: the sleep ends, current_time is read and  *)
(* the iteration over cache_expiry.items() starts.                         *)
CleanWake ==
    /\ clean.pc = "sleep"
    /\ now >= clean.wake
    /\ clean' = [clean EXCEPT !.pc = "collect", !.current_time = now,
                              !.size = Cardinality(DOMAIN cache_expiry),
                              !.todo = DOMAIN cache_expiry, !.expired = {}]
    /\ UNCHANGED <<pageVars, signals_table, cache, cache_expiry, now, set_log,
                   got, response, req>>

Asleep == [SleepingCleanup EXCEPT !.wake = now + SleepMinutes]

(* cleanup_cache, lines 344-345: one step of the dict iterator.  It raises *)
(* RuntimeError when the dict changed size, and the thread ends with it.   *)
CleanCollect ==
    /\ clean.pc = "collect"
    /\ clean' =
          IF Cardinality(DOMAIN cache_expiry) # clean.size
          THEN [clean EXCEPT !.pc = "dead"]
          ELSE IF clean.todo = {}
          THEN IF clean.expired = {} THEN Asleep
               ELSE [clean EXCEPT !.pc = "pop_cache"]
          ELSE LET key == CHOOSE k \in clean.todo : TRUE
               IN  [clean EXCEPT
                      !.todo = @ \ {key},
                      !.expired =
                          IF key \in ExpiredKeys(cache_expiry, clean.current_time)
                          THEN @ \cup {key} ELSE @]
    /\ UNCHANGED <<pageVars, signals_table, cache, cache_expiry, now, set_log,
                   got, response, req>>

(* cleanup_cache, line 347: cache.pop(key, None) *)
CleanPopCache ==
    /\ clean.pc = "pop_cache"
    /\ LET key == CHOOSE k \in clean.expired : TRUE
       IN  /\ cache' = DictPop(cache, key)
           /\ clean' = [clean EXCEPT !.pc = "pop_expiry", !.key = key]
    /\ UNCHANGED <<pageVars, signals_table, cache_expiry, now, set_log, got,
                   response, req>>

(* cleanup_cache, line 348: cache_expiry.pop(key, None) *)
CleanPopExpiry ==
    /\ clean.pc = "pop_expiry"
    /\ cache_expiry' = DictPop(cache_expiry, clean.key)
    /\ clean' = IF clean.expired = {clean.key} THEN Asleep
                ELSE [clean EXCEPT !.pc = "pop_cache",
                                   !.expired = @ \ {clean.key}]
    /\ UNCHANGED <<pageVars, signals_table, cache, now, set_log, got,
                   response, req>>

RaceNext ==
    \/ Tick
    \/ \E t \in Threads :
          SetValue(t) \/ SetExpiry(t) \/ GetMembership(t) \/ GetCompare(t)
          \/ GetRead(t)
    \/ CleanWake \/ CleanCollect \/ CleanPopCache \/ CleanPopExpiry

RaceSpec == BackendInit /\ [][RaceNext]_vars

----------------------------------------------------------------------------
(* The chat page: one action per button handler.  The handlers are taken   *)
(* from the point where the script reaches them; the sidebar code that     *)
(* runs before them (lines 299-333) is not modelled.                       *)
ChatIdle == UNCHANGED <<data, pc, adx, trend, strength, trendArg, atr, pivots,
                        levels, priceArg, risk, patterns, plan, rsi, signal,
                        signals_table, backendVars>>

Room == Len(chat_history) < 1 + 2 * MaxPairs

Send ==
    \E user_input \in TypedInputs, found \in BOOLEAN :
        /\ Room
        /\ IF user_input # ""
           THEN /\ chat_history' =
                      Exchange(chat_history, user_input, user_input, found)
                /\ submitted' = Append(submitted, user_input)
           ELSE UNCHANGED <<chat_history, submitted>>
        /\ last_event' = "send"
        /\ ChatIdle

ClearChat ==
    /\ chat_history' = Cleared(chat_history)
    /\ submitted' = <<>>
    /\ last_event' = "clear"
    /\ ChatIdle

QuickAnalysis ==
    \E i \in DOMAIN popular_stocks, found \in BOOLEAN :
        /\ Room
        /\ chat_history' =
              Exchange(chat_history, "Analyze " \o popular_stocks[i],
                       "analyze " \o popular_stocks[i], found)
        /\ submitted' = Append(submitted, "Analyze " \o popular_stocks[i])
        /\ last_event' = "analyze"
        /\ ChatIdle

QuickTopic ==
    \E i \in DOMAIN quick_topics, found \in BOOLEAN :
        /\ Room
        /\ chat_history' =
              Exchange(chat_history, quick_topics[i], quick_topics[i], found)
        /\ submitted' = Append(submitted, quick_topics[i])
        /\ last_event' = "topic"
        /\ ChatIdle

ChatNext == Send \/ ClearChat \/ QuickAnalysis \/ QuickTopic

(* A new session: chat_history holds the welcome message (lines 76-83). *)
ChatInit ==
    /\ data = <<>>
    /\ Fresh

ChatSpec == ChatInit /\ [][ChatNext]_vars

----------------------------------------------------------------------------
(* Vocabulary of the properties. *)
Generated == pc \in {"levels", "risk"}

Directional == "entry" \in DOMAIN levels

LastClose == data[Len(data)].Close

TrailingSum(p) == SumClose(data, Len(data) - p + 1, Len(data))

ReturnedResistance == SeqRange(calculate_support_resistance(data).resistance)

ReturnedSupport == SeqRange(calculate_support_resistance(data).support)

ResistanceAbove == {r \in ReturnedResistance : r > LastClose}

SupportBelow == {x \in ReturnedSupport : x < LastClose}

(* c + m * atr as a rational, for a numeric atr. *)
CloseOffset(m) == Frac(LastClose * atr.d + m * atr.n, atr.d)

RatLt(x, y) == x.n * y.d < y.n * x.d

RatLe(x, y) == x.n * y.d <= y.n * x.d

StrictlyIncreasing ==
    \A i \in 2..Len(data) : data[i].Close > data[i - 1].Close

(* k is x = n / d dollars shown to the nearest cent. *)
NearestCent(k, n, d) == 2 * Abs(100 * n - k * d) <= d

----------------------------------------------------------------------------
(* C1: a series of fewer than 50 bars makes analyze_trend return the       *)
(* Insufficient Data state with strength 0, whatever its bars are.         *)
C1_ShortSeriesInsufficient ==
    (pc = "trend" /\ Len(data) < 50)
        => (trend = "Insufficient Data" /\ strength = 0)

C1_Witness ==
    /\ pc = "trend"
    /\ Len(data) = 49
    /\ data[49].Close > data[29].Close
    /\ data[29].Close > data[1].Close
    /\ trend = "Insufficient Data"
    /\ strength = 0

(* C2: with at least 50 bars the trend is Uptrend exactly when             *)
(* close > SMA(20) > SMA(50), Downtrend exactly when                       *)
(* close < SMA(20) < SMA(50), Sideways otherwise; an Uptrend or Downtrend  *)
(* has strength min(adx, 100).                                             *)
C2_TrendClassification ==
    (trend # "none" /\ Len(data) >= 50) =>
        LET up == /\ LastClose * 20 > TrailingSum(20)
                  /\ TrailingSum(20) * 50 > TrailingSum(50) * 20
            down == /\ LastClose * 20 < TrailingSum(20)
                    /\ TrailingSum(20) * 50 < TrailingSum(50) * 20
        IN  /\ (trend = "Uptrend") <=> up
            /\ (trend = "Downtrend") <=> down
            /\ (trend = "Sideways") <=> (~up /\ ~down)
            /\ (pc = "trend" /\ trend \in {"Uptrend", "Downtrend"})
                   => strength = (IF adx < 100 THEN adx ELSE 100)

C2_Witness ==
    /\ pc = "trend"
    /\ Len(data) >= 50
    /\ LastClose * 20 > TrailingSum(20)
    /\ TrailingSum(20) * 50 = TrailingSum(50) * 20
    /\ trend = "Sideways"

(* C3: for an Uptrend input with close c and a numeric ATR a the plan is   *)
(* LONG with entry c, stop c - 2a, far target c + 4a, near target the      *)
(* smaller of c + 2a and the nearest returned resistance above c, and      *)
(* risk_reward (near - entry) / (entry - stop) (0/0, a nan, when a = 0).   *)
C3_LongPlan ==
    (Generated /\ trendArg = "Uptrend" /\ IsNum(atr)) =>
        LET raw == CloseOffset(2)
            near == IF ResistanceAbove = {} THEN raw
                    ELSE IF RatLt(Num(SetMin(ResistanceAbove)), raw)
                         THEN Num(SetMin(ResistanceAbove))
                         ELSE raw
        IN  /\ Directional
            /\ levels.direction = "LONG"
            /\ levels.entry = Num(LastClose)
            /\ levels.stop_loss = CloseOffset(-2)
            /\ levels.take_profit_2 = CloseOffset(4)
            /\ levels.take_profit_1 = near
            /\ levels.risk_reward =
                   (IF atr.n > 0
                    THEN Frac((near.n - LastClose * near.d) * atr.d,
                              near.d * 2 * atr.n)
                    ELSE NaN)

C3_Witness ==
    /\ Generated
    /\ trendArg = "Uptrend"
    /\ IsNum(atr)
    /\ atr.n > 0
    /\ Cardinality(ResistanceAbove) >= 2
    /\ levels.take_profit_1 = Num(SetMin(ResistanceAbove))
    /\ levels.take_profit_1 # CloseOffset(2)

(* C4: for a Downtrend input with close c and a numeric ATR a the plan is  *)
(* SHORT with entry c, stop c + 2a, far target c - 4a, near target the     *)
(* larger of c - 2a and the nearest returned support below c, and          *)
(* risk_reward (entry - near) / (stop - entry) (0/0, a nan, when a = 0).   *)
C4_ShortPlan ==
    (Generated /\ trendArg = "Downtrend" /\ IsNum(atr)) =>
        LET raw == CloseOffset(-2)
            near == IF SupportBelow = {} THEN raw
                    ELSE IF RatLt(raw, Num(SetMax(SupportBelow)))
                         THEN Num(SetMax(SupportBelow))
                         ELSE raw
        IN  /\ Directional
            /\ levels.direction = "SHORT"
            /\ levels.entry = Num(LastClose)
            /\ levels.stop_loss = CloseOffset(2)
            /\ levels.take_profit_2 = CloseOffset(-4)
            /\ levels.take_profit_1 = near
            /\ levels.risk_reward =
                   (IF atr.n > 0
                    THEN Frac((LastClose * near.d - near.n) * atr.d,
                              near.d * 2 * atr.n)
                    ELSE NaN)

C4_Witness ==
    /\ Generated
    /\ trendArg = "Downtrend"
    /\ IsNum(atr)
    /\ atr.n > 0
    /\ Cardinality(SupportBelow) >= 2
    /\ levels.take_profit_1 = Num(SetMax(SupportBelow))
    /\ levels.take_profit_1 # CloseOffset(-2)

(* The chain of C5 on the plan in hand. *)
LongChain ==
    /\ RatLt(levels.stop_loss, levels.entry)
    /\ RatLt(levels.entry, levels.take_profit_1)
    /\ RatLe(levels.take_profit_1, levels.take_profit_2)

ShortChain ==
    /\ RatLt(levels.entry, levels.stop_loss)
    /\ RatLt(levels.take_profit_1, levels.entry)
    /\ RatLe(levels.take_profit_2, levels.take_profit_1)

(* C5 as claimed: every Long plan has stop < entry < near <= far and every *)
(* Short plan the reversed chain, for every close, ATR value and pivots.   *)
C5_Original ==
    (Generated /\ Directional /\ IsNum(atr)) =>
        /\ levels.direction = "LONG" => LongChain
        /\ levels.direction = "SHORT" => ShortChain

(* C5 amended: the chains hold for every plan made with an ATR above 0;    *)
(* a plan made with ATR 0 has stop, entry and both targets equal to the    *)
(* close.                                                                  *)
C5_Amended ==
    (Generated /\ Directional /\ IsNum(atr)) =>
        IF atr.n > 0
        THEN /\ levels.direction = "LONG" => LongChain
             /\ levels.direction = "SHORT" => ShortChain
        ELSE /\ levels.stop_loss = Num(LastClose)
             /\ levels.entry = Num(LastClose)
             /\ levels.take_profit_1 = Num(LastClose)
             /\ levels.take_profit_2 = Num(LastClose)

C5_Witness ==
    /\ Generated
    /\ levels.direction = "LONG"
    /\ IsNum(atr)
    /\ atr.n > 0
    /\ RatLt(levels.take_profit_1, CloseOffset(2))
    /\ LongChain

(* C6: a series of at least 50 bars with strictly increasing closes is an  *)
(* Uptrend, and the plan generated for that trend is LONG with entry at    *)
(* the last close (Scenario A: closes rising from 100 to 160).             *)
C6_RisingSeriesLong ==
    (Len(data) >= 50 /\ StrictlyIncreasing /\ trend # "none") =>
        /\ trend = "Uptrend"
        /\ Generated =>
              /\ Directional
              /\ levels.direction = "LONG"
              /\ levels.entry = Num(LastClose)

C6_Witness ==
    /\ Generated
    /\ StrictlyIncreasing
    /\ data[1].Close = 100
    /\ LastClose = 160
    /\ trend = "Uptrend"
    /\ levels.direction = "LONG"
    /\ levels.entry = Num(160)

(* C7: for a Sideways or Insufficient Data trend the plan is a Wait plan   *)
(* of direction and message only; LONG is returned only for Uptrend and    *)
(* SHORT only for Downtrend.                                               *)
C7_WaitPlanHasNoPrices ==
    Generated =>
        /\ trendArg \in {"Sideways", "Insufficient Data"} =>
              /\ levels.direction = "WAIT"
              /\ DOMAIN levels = {"direction", "message"}
        /\ levels.direction = "LONG" => trendArg = "Uptrend"
        /\ levels.direction = "SHORT" => trendArg = "Downtrend"

C7_Witness ==
    /\ Generated
    /\ trend = "Insufficient Data"
    /\ trendArg = "Insufficient Data"
    /\ levels.direction = "WAIT"

(* C8: for a directional plan and a price other than its stop,             *)
(* risk_per_unit is |price - stop_loss|, max_units is                      *)
(* floor(10000 * 2% / risk_per_unit) and total_risk is                     *)
(* max_units * risk_per_unit; the two amounts are reported to the cent.    *)
C8_PositionSize ==
    (/\ pc = "risk"
     /\ Directional
     /\ IsNum(priceArg)
     /\ IsNum(levels.stop_loss)
     /\ priceArg # levels.stop_loss) =>
        LET n == Abs(priceArg.n * levels.stop_loss.d
                     - levels.stop_loss.n * priceArg.d)
            d == priceArg.d * levels.stop_loss.d
            units == (200 * d) \div n
        IN  /\ DOMAIN risk = {"account_size", "risk_per_trade",
                              "risk_per_share", "max_position_size",
                              "total_risk"}
            /\ risk.account_size = 10000
            /\ risk.max_position_size = units
            /\ NearestCent(risk.risk_per_share, n, d)
            /\ NearestCent(risk.total_risk, units * n, d)

C8_Witness ==
    /\ pc = "risk"
    /\ levels.direction = "LONG"
    /\ priceArg = levels.entry
    /\ "total_risk" \in DOMAIN risk
    /\ risk.max_position_size > 0
    /\ risk.total_risk < 20000
    /\ risk.total_risk # risk.max_position_size * risk.risk_per_share

(* C9: the risk sizer applied to the Wait plan of a Sideways or            *)
(* Insufficient Data trend returns the "no position" message and no        *)
(* numeric field.                                                          *)
C9_WaitPlanNoPosition ==
    (pc = "risk" /\ trendArg \in {"Sideways", "Insufficient Data"})
        => risk = [message |-> "No position recommended"]

C9_Witness ==
    /\ pc = "risk"
    /\ trend = "Sideways"
    /\ trendArg = "Sideways"
    /\ risk = [message |-> "No position recommended"]

(* C10: when the price equals the plan's stop_loss (risk_per_unit is 0)    *)
(* the risk sizer returns an explicit "unavailable" message; it does not   *)
(* raise.                                                                  *)
C10_ZeroRiskIsUnavailable ==
    (/\ pc = "risk"
     /\ Directional
     /\ IsNum(priceArg)
     /\ priceArg = levels.stop_loss)
        => "message" \in DOMAIN risk

(* C11: in a directional plan whose entry equals its stop_loss (ATR is 0)  *)
(* the risk/reward division is not performed: risk_reward is never NaN or  *)
(* Infinity in the returned plan.                                          *)
C11_NoDivisionAtZeroAtr ==
    (/\ Generated
     /\ Directional
     /\ IsNum(atr)
     /\ levels.entry = levels.stop_loss)
        => ~(/\ "risk_reward" \in DOMAIN levels
             /\ levels.risk_reward.k \in {"nan", "inf"})

(* C12: when the series has fewer bars than the ATR period and the trend   *)
(* passed in is Uptrend or Downtrend, the plan is built on 2% of the       *)
(* current close and its entry, stop_loss, both targets and risk_reward    *)
(* are all defined numbers.                                                *)
C12_ShortSeriesUsesFallback ==
    (/\ Generated
     /\ Directional
     /\ Len(data) < AtrPeriod)
        => /\ atr = FMul(Num(LastClose), Frac(AtrFallbackPct, 100))
           /\ IsNum(levels.entry)
           /\ IsNum(levels.stop_loss)
           /\ IsNum(levels.take_profit_1)
           /\ IsNum(levels.take_profit_2)
           /\ IsNum(levels.risk_reward)

(* C13: calculate_support_resistance returns at most 5 support and at most *)
(* 5 resistance levels; the resistance list is strictly descending and the *)
(* support list strictly ascending.                                        *)
C13_PivotListsBoundedAndOrdered ==
    Generated =>
        /\ Len(pivots.support) <= 5
        /\ Len(pivots.resistance) <= 5
        /\ \A i \in 1..Len(pivots.resistance) :
             \A j \in (i + 1)..Len(pivots.resistance) :
                pivots.resistance[i] > pivots.resistance[j]
        /\ \A i \in 1..Len(pivots.support) :
             \A j \in (i + 1)..Len(pivots.support) :
                pivots.support[i] < pivots.support[j]

(* More than five distinct local highs, and more than five distinct local  *)
(* lows: both lists were cut.                                              *)
C13_Witness ==
    /\ Generated
    /\ Len(pivots.resistance) = 5
    /\ Len(pivots.support) = 5
    /\ Cardinality(ResistanceCandidates(data)) > 5
    /\ Cardinality(SupportCandidates(data)) > 5

(* C14: a series shorter than a component's minimum window gives that      *)
(* component's empty result: calculate_support_resistance returns two      *)
(* empty lists for fewer than 20 bars, identify_candlestick_patterns an    *)
(* empty mapping for fewer than 10 bars.                                   *)
C14_ShortSeriesEmptyResults ==
    /\ (patterns # NoPatterns /\ Len(data) < 10) => patterns = EmptyPatterns
    /\ (Generated /\ Len(data) < 20) =>
            pivots = [support |-> <<>>, resistance |-> <<>>]

(* Nine bars: both components were called and both returned empty. *)
C14_Witness ==
    /\ pc = "levels"
    /\ Len(data) = 9
    /\ patterns = EmptyPatterns
    /\ pivots.support = <<>>
    /\ pivots.resistance = <<>>

(* C15: create_trading_plan returns a plan structure and never raises,     *)
(* for every series of at least one bar, every trend state, every ATR      *)
(* (0 and undefined included) and every pattern mapping.                   *)
C15_PlanNeverRaises ==
    pc = "plan" => /\ "raised" \notin DOMAIN plan
                   /\ "levels" \in DOMAIN plan

(* Vocabulary of the RSI properties: the changes inside the window of 14   *)
(* bars that ends at bar i.                                                *)
RsiWindow(i) == {j \in (i - 13)..i : j > 1}

NoLossIn(i) == \A j \in RsiWindow(i) : data[j].Close >= data[j - 1].Close

NoGainIn(i) == \A j \in RsiWindow(i) : data[j].Close <= data[j - 1].Close

(* C16: at every bar where RSI(14) is defined, calculate_rsi returns a     *)
(* value in [0, 100], and the value is 100 exactly when the average loss   *)
(* over the window is 0 and the average gain is greater than 0.            *)
C16_RsiRange ==
    pc = "rsi" =>
        \A i \in 14..Len(data) :
            ~(NoLossIn(i) /\ NoGainIn(i)) =>
                /\ IsNum(rsi[i])
                /\ RatLe(Num(0), rsi[i])
                /\ RatLe(rsi[i], Num(100))
                /\ (rsi[i] = Num(100)) <=> (NoLossIn(i) /\ ~NoGainIn(i))

(* A 20-bar series with only positive changes: RSI is 100 on the last bar. *)
C16_Witness ==
    /\ pc = "rsi"
    /\ Len(data) = 20
    /\ StrictlyIncreasing
    /\ rsi[20] = Num(100)

(* C18: when the classification is Sideways the strength analyze_trend     *)
(* returns is max(25 - trend_strength, 0) if trend_strength > 25 and 25    *)
(* otherwise.                                                              *)
C18_SidewaysStrength ==
    (pc = "trend" /\ trend = "Sideways") =>
        /\ adx \in 0..100
        /\ strength = IF adx > 25 THEN Max2(25 - adx, 0) ELSE 25

(* A strong-ADX Sideways market: the strength is 0. *)
C18_Witness ==
    /\ pc = "trend"
    /\ trend = "Sideways"
    /\ adx = 60
    /\ strength = 0

(* C19: no signal generator emits BUY or SELL when a moving average it     *)
(* compares against is undefined: with fewer than 50 bars (fewer than 20   *)
(* for the Lambda handler, which uses SMA(20) only) the signal is HOLD.    *)
C19_NoSignalOnUndefinedAverage ==
    /\ (pc \in {"backend_signal", "app_signal"} /\ Len(data) < 50)
            => signal.signal = "HOLD"
    /\ (pc = "lambda_signal" /\ Len(data) < 20)
            => signal.signal \notin {"BUY", "SELL"}

(* C20: whenever the average loss over the RSI window is 0, a window of    *)
(* flat closes included, calculate_rsi returns 100 for that bar, never     *)
(* NaN or Infinity.                                                        *)
C20_RsiIs100WithoutLoss ==
    pc = "rsi" =>
        \A i \in 14..Len(data) : NoLossIn(i) => rsi[i] = Num(100)

(* Vocabulary of the pivot properties: the candidates of each side and the *)
(* one nearest to the close.                                               *)
CandidatesAbove == {r \in ResistanceCandidates(data) : r > LastClose}

CandidatesBelow == {x \in SupportCandidates(data) : x < LastClose}

(* C21: when a side has more than 5 distinct pivot candidates, the levels  *)
(* kept are the nearest to the current close: the nearest candidate above  *)
(* the close is among the returned resistance levels and the nearest       *)
(* candidate below it among the returned support levels.                   *)
C21_NearestCandidateKept ==
    (Generated /\ Len(data) >= 20) =>
        /\ (Cardinality(ResistanceCandidates(data)) > 5 /\ CandidatesAbove # {})
              => SetMin(CandidatesAbove) \in SeqRange(pivots.resistance)
        /\ (Cardinality(SupportCandidates(data)) > 5 /\ CandidatesBelow # {})
              => SetMax(CandidatesBelow) \in SeqRange(pivots.support)

(* The claim's candidates, by 0-based bar index i with 2 <= i <= N - 3.    *)
WindowHighs(i) == {data[m + 1].High : m \in (i - 2)..(i + 2)}

WindowLows(i) == {data[m + 1].Low : m \in (i - 2)..(i + 2)}

LocalHighs ==
    {data[i + 1].High : i \in {j \in 2..(Len(data) - 3) :
                                 \A h \in WindowHighs(j) : h <= data[j + 1].High}}

LocalLows ==
    {data[i + 1].Low : i \in {j \in 2..(Len(data) - 3) :
                                \A l \in WindowLows(j) : l >= data[j + 1].Low}}

(* C22: for a series of at least 20 bars the resistance candidates are the *)
(* highs of the bars whose 5-bar centered window lies inside the series    *)
(* and whose high equals the window's maximum, ties included; support      *)
(* likewise with lows and the minimum.  The returned lists are drawn only  *)
(* from these candidates: a candidate is left out only of a full list,     *)
(* whose levels all lie beyond it.                                         *)
C22_PivotCandidates ==
    (Generated /\ Len(data) >= 20) =>
        /\ SeqRange(pivots.resistance) \subseteq LocalHighs
        /\ SeqRange(pivots.support) \subseteq LocalLows
        /\ \A c \in LocalHighs \ SeqRange(pivots.resistance) :
              /\ Len(pivots.resistance) = 5
              /\ \A r \in SeqRange(pivots.resistance) : r > c
        /\ \A c \in LocalLows \ SeqRange(pivots.support) :
              /\ Len(pivots.support) = 5
              /\ \A x \in SeqRange(pivots.support) : x < c

(* A returned resistance level that ties with a neighbour inside its       *)
(* window, on a series whose second and second-to-last highs are not       *)
(* candidates although they top their neighbours.                          *)
C22_Witness ==
    /\ Generated
    /\ Len(data) >= 20
    /\ \E i \in 2..(Len(data) - 3) :
          /\ data[i + 1].High \in SeqRange(pivots.resistance)
          /\ \A h \in WindowHighs(i) : h <= data[i + 1].High
          /\ \E m \in ((i - 2)..(i + 2)) \ {i} : data[m + 1].High = data[i + 1].High
    /\ pivots.support # <<>>
    /\ LocalHighs # {data[i].High : i \in 1..Len(data)}

(* Vocabulary of the plan properties. *)
PlanReturned == pc = "plan" /\ "patterns" \in DOMAIN plan

EntriesFor(p) == {i \in 1..Len(plan.patterns) : plan.patterns[i].name = p}

PatternLines ==
    {i \in 1..Len(plan.action_plan) :
        plan.action_plan[i].label = "Recent patterns"}

(* C23: the plan's pattern list has one entry for each pattern whose       *)
(* signal on the most recent bar is non-zero, Bullish when the signal is   *)
(* positive and Bearish when it is negative, and none for a zero signal;   *)
(* the action summary surfaces at most 2 of these entries.                 *)
C23_PlanPatterns ==
    PlanReturned =>
        /\ \A i \in 1..Len(plan.patterns) :
              plan.patterns[i].name \in DOMAIN patterns
        /\ \A p \in DOMAIN patterns :
              /\ patterns[p] = 0 => EntriesFor(p) = {}
              /\ patterns[p] # 0 => Cardinality(EntriesFor(p)) = 1
              /\ \A i \in EntriesFor(p) :
                    plan.patterns[i].signal_type =
                        IF patterns[p] > 0 THEN "Bullish" ELSE "Bearish"
        /\ Cardinality(PatternLines) <= 1
        /\ \A i \in PatternLines :
              LET line == plan.action_plan[i]
              IN  /\ Len(line.shown) <= 2
                  /\ \A j \in 1..Len(line.shown) :
                        \E m \in 1..Len(plan.patterns) :
                            line.shown[j] = plan.patterns[m]

(* Three patterns fired, of both kinds; two of them are surfaced. *)
C23_Witness ==
    /\ PlanReturned
    /\ Len(plan.patterns) = 3
    /\ \E i, j \in 1..3 : /\ plan.patterns[i].signal_type = "Bullish"
                          /\ plan.patterns[j].signal_type = "Bearish"
    /\ \E p \in DOMAIN patterns : patterns[p] = 0
    /\ \E i \in PatternLines : Len(plan.action_plan[i].shown) = 2

(* |price - stop_loss| as the fraction RpsNum / RpsDen. *)
RpsNum == Abs(priceArg.n * levels.stop_loss.d - levels.stop_loss.n * priceArg.d)

RpsDen == priceArg.d * levels.stop_loss.d

(* C24: for a directional plan with risk_per_share > 0, max_position_size  *)
(* is a non-negative integer and max_position_size * risk_per_share never  *)
(* exceeds 2% of the account (200), falling short of it by less than one   *)
(* risk_per_share.                                                         *)
C24_RiskWithinLimit ==
    (/\ pc = "risk"
     /\ Directional
     /\ IsNum(priceArg)
     /\ IsNum(levels.stop_loss)
     /\ RpsNum > 0) =>
        /\ "max_position_size" \in DOMAIN risk
        /\ risk.max_position_size \in Nat
        /\ risk.max_position_size * RpsNum <= 200 * RpsDen
        /\ 200 * RpsDen - risk.max_position_size * RpsNum < RpsNum
        /\ risk.total_risk <= 20000

(* A Short plan sized at its near target: some of the 200 is left unused. *)
C24_Witness ==
    /\ pc = "risk"
    /\ levels.direction = "SHORT"
    /\ IsNum(priceArg)
    /\ IsNum(levels.stop_loss)
    /\ priceArg = levels.take_profit_1
    /\ "max_position_size" \in DOMAIN risk
    /\ risk.max_position_size > 0
    /\ risk.max_position_size * RpsNum < 200 * RpsDen

(* The returned pivot levels strictly between the close and the near       *)
(* target at 2 * ATR, on the side the plan trades towards.                 *)
LevelsBeforeTarget ==
    IF levels.direction = "LONG"
    THEN {r \in SeqRange(pivots.resistance) :
            /\ r > LastClose
            /\ r * atr.d < LastClose * atr.d + 2 * atr.n}
    ELSE {x \in SeqRange(pivots.support) :
            /\ x < LastClose
            /\ x * atr.d > LastClose * atr.d - 2 * atr.n}

(* C25: for every Long or Short plan generated with ATR > 0, risk_reward   *)
(* is greater than 0 and at most 1, and it equals 1 exactly when no        *)
(* returned pivot level lies strictly between the close and the near       *)
(* target at 2 * ATR.                                                      *)
C25_RiskRewardRange ==
    (/\ Generated
     /\ Directional
     /\ IsNum(atr)
     /\ atr.n > 0) =>
        /\ IsNum(levels.risk_reward)
        /\ RatLt(Num(0), levels.risk_reward)
        /\ RatLe(levels.risk_reward, Num(1))
        /\ (levels.risk_reward = Num(1)) <=> (LevelsBeforeTarget = {})

(* A Long plan whose near target was clamped to a resistance level, and    *)
(* which has another resistance beyond the 2 * ATR target.                 *)
C25_Witness ==
    /\ Generated
    /\ levels.direction = "LONG"
    /\ IsNum(atr)
    /\ atr.n > 0
    /\ LevelsBeforeTarget # {}
    /\ RatLt(levels.risk_reward, Num(1))
    /\ \E r \in SeqRange(pivots.resistance) :
          r * atr.d > LastClose * atr.d + 2 * atr.n

----------------------------------------------------------------------------
(* C29: in sequential execution get_cached_data(key) returns a value only  *)
(* if set_cache(key, v, m) was called earlier and the current time is      *)
(* strictly before that call's time plus m minutes; the value is the v of  *)
(* the most recent set_cache for the key; and once the expiry has passed   *)
(* the result is None, whether or not cleanup_cache has run yet.           *)
LastExpiry(key) == set_log[key].at + set_log[key].minutes

C29_SequentialGet ==
    [][got' # got =>
         LET key == got'.key
         IN  /\ Truthy(got'.value) =>
                   /\ key \in DOMAIN set_log
                   /\ now < LastExpiry(key)
                   /\ got'.value = set_log[key].value
             /\ (key \in DOMAIN set_log /\ now >= LastExpiry(key)) =>
                   got'.value = PyNone]_vars

(* An expired entry that cleanup_cache has not removed yet was asked for, *)
(* and the answer was None.                                                *)
C29_Witness ==
    /\ got.key \in DOMAIN set_log
    /\ got.key \in DOMAIN cache
    /\ got.at = now
    /\ LastExpiry(got.key) <= now
    /\ got.value = PyNone

----------------------------------------------------------------------------
(* C26: GET /api/signals/<symbol> answers with status 200 only with a      *)
(* result that carries signal and confidence; when signal generation fails *)
(* (no data, or an exception inside generate_trading_signal) the response  *)
(* is an error status and nothing is stored under signals_<symbol>.        *)
GenerationFailed == response.fetch \in {"empty", "raise"}

C26_SignalsResponse ==
    /\ response.status = 200 =>
          {"signal", "confidence"} \subseteq DOMAIN response.body
    /\ GenerationFailed => (response.status >= 400 /\ ~response.stored)

----------------------------------------------------------------------------
(* C27: under any interleaving of the cleanup thread with request threads  *)
(* calling set_cache, cleanup never removes an entry whose expiry is still *)
(* in the future, and cache and cache_expiry hold the same set of keys     *)
(* whenever no set_cache or cleanup step is in progress.                   *)
CleanupRemoves(key) ==
    /\ clean' # clean
    /\ \/ key \in DOMAIN cache /\ key \notin DOMAIN cache'
       \/ key \in DOMAIN cache_expiry /\ key \notin DOMAIN cache_expiry'

StillValid(key) == key \in DOMAIN cache_expiry /\ cache_expiry[key] > now

Quiescent ==
    /\ \A t \in Threads : req[t].pc # "set_expiry"
    /\ clean.pc \in {"sleep", "dead"}

C27_CleanupKeepsFreshEntries ==
    /\ [][\A key \in Keys : StillValid(key) => ~CleanupRemoves(key)]_vars
    /\ [](Quiescent => DOMAIN cache = DOMAIN cache_expiry)

(* C28: under any interleaving with the cleanup thread get_cached_data     *)
(* never raises: it returns None or a stored value.                        *)
C28_GetNeverRaises ==
    \A t \in Threads : req[t].result \in {PyNone} \cup Payloads

----------------------------------------------------------------------------
(* C30: after any sequence of Send, Clear Chat, quick-analysis and         *)
(* quick-topic events chat_history is non-empty, its first element is the  *)
(* welcome message, the elements after it are user/bot pairs in submission *)
(* order (each user message immediately followed by exactly one bot        *)
(* reply), and Clear Chat leaves exactly the welcome message.              *)
C30_ChatHistoryShape ==
    /\ chat_history # <<>>
    /\ chat_history[1] = Welcome
    /\ Len(chat_history) = 1 + 2 * Len(submitted)
    /\ \A i \in DOMAIN submitted :
          /\ chat_history[2 * i] = UserMessage(submitted[i])
          /\ chat_history[2 * i + 1].type = "bot"
    /\ last_event = "clear" => chat_history = <<Welcome>>

(* Two different exchanges are in the history, the second made by Send. *)
C30_Witness ==
    /\ Len(submitted) = 2
    /\ submitted[1] # submitted[2]
    /\ last_event = "send"
    /\ Len(chat_history) = 5

====
